---- MODULE Spec2Model ----
(***************************************************************************)
(* Model of layout_generator.py: the geometry helpers, the constraint      *)
(* check, the randomised placement search generate_layout, the scoring     *)
(* function compute_score and the module-level driver loop that collects   *)
(* scored layouts.                                                         *)
(*                                                                         *)
(* Representation.                                                         *)
(*  - A building is the dict of the source, a record                       *)
(*    [type, w, h, x, y].  Coordinates are drawn from the finite sets      *)
(*    SamplesX, SamplesY instead of the reals; random.uniform(a, b) is any sample in  *)
(*    the closed interval [a, b].                                          *)
(*  - rectangle_distance returns math.sqrt(dx*dx + dy*dy).  The model      *)
(*    carries that non-negative real by its exact square: d is stored as   *)
(*    d*d.  sqrt is strictly increasing, so d < c is d*d < c*c and         *)
(*    d <= c is d*d <= c*c (operators dist_lt, dist_le); d = 0 is          *)
(*    d*d = 0.  Where the code does arithmetic on a distance               *)
(*    (compute_score) the value is taken in fixed point, 1/100 units.      *)
(*  - Python lists are objects: heap maps a list reference to the list's   *)
(*    contents, and the variables buildings, layout and the entries of     *)
(*    layouts hold references.  None is the reference 0.                   *)
(***************************************************************************)
EXTENDS Integers, Sequences, FiniteSets, TLC

\* ---------------------------------------------------------------- constants
SITE_WIDTH == 200
SITE_HEIGHT == 140
TOWER_A_SIZE == <<30, 20>>
TOWER_B_SIZE == <<20, 20>>
BOUNDARY_BUFFER == 10
MIN_BUILDING_DISTANCE == 15
NEIGHBOR_DISTANCE == 60
PLAZA_SIZE == 40
PLAZA_X == (SITE_WIDTH - PLAZA_SIZE) \div 2
PLAZA_Y == (SITE_HEIGHT - PLAZA_SIZE) \div 2

\* ------------------------------------------------------------------- bounds
\* generate_layout is explored for num_a in 0..MaxA, num_b in 0..MaxB and
\* max_attempts in 0..MaxAttempts; the driver loop runs NumTrials times
\* (700 in the source).
MaxA == 2
MaxB == 2
MaxAttempts == 2
NumTrials == 2
\* The function harness calls the list functions on lists of up to MaxLen
\* rectangles.
MaxLen == 3
\* Values random.uniform may return for an x and for a y coordinate (those
\* inside the requested interval).
SamplesX == {0, 10, 100, 160, 180}
SamplesY == {10, 40, 120}

None == 0

VARIABLES
    num_a, num_b, max_attempts,   \* arguments of generate_layout
    pc,                           \* position of the program
    trial,                        \* iterations of the driver loop done
    heap,                         \* list reference -> contents
    buildings,                    \* generate_layout's local list (reference)
    idx,                          \* items of the work list taken so far
    placed,                       \* generate_layout's local flag
    attempt,                      \* iterations of the inner loop done
    layout,                       \* driver's variable: last result
    layouts,                      \* driver's list of <<score, reference>>
    top_layouts,                  \* layouts[:3] after the sort
    f_pc,                         \* function harness: "ready" or "done"
    f_in,                         \* function harness: the argument(s)
    f_out                         \* function harness: [fn, value] of the call

prog_vars == <<num_a, num_b, max_attempts, pc, trial, heap, buildings, idx,
               placed, attempt, layout, layouts, top_layouts>>
fn_vars == <<f_pc, f_in, f_out>>
vars == <<prog_vars, fn_vars>>

\* --------------------------------------------------------- geometry helpers
max3(a, b, c) ==
    IF a >= b /\ a >= c THEN a ELSE IF b >= c THEN b ELSE c

\* Mutant: < for <=, so that rectangles that only touch count as overlapping.
rectangles_overlap_touching(r1, r2) ==
    ~ (   r1.x + r1.w < r2.x
       \/ r2.x + r2.w < r1.x
       \/ r1.y + r1.h < r2.y
       \/ r2.y + r2.h < r1.y)

rectangles_overlap(r1, r2) ==
    ~ (   r1.x + r1.w <= r2.x
       \/ r2.x + r2.w <= r1.x
       \/ r1.y + r1.h <= r2.y
       \/ r2.y + r2.h <= r1.y)

\* Mutant: the gap is measured from r1 to r2 only.
rectangle_distance_one_sided(r1, r2) ==
    LET dx == max3(r2.x - (r1.x + r1.w), 0, 0)
        dy == max3(r2.y - (r1.y + r1.h), 0, 0)
    IN  dx * dx + dy * dy

\* The distance, carried as its square.
rectangle_distance(r1, r2) ==
    LET dx == max3(r2.x - (r1.x + r1.w), r1.x - (r2.x + r2.w), 0)
        dy == max3(r2.y - (r1.y + r1.h), r1.y - (r2.y + r2.h), 0)
    IN  dx * dx + dy * dy

\* d < c and d <= c for a distance d (carried as its square) and a constant c >= 0.
dist_lt(d, c) == d < c * c
dist_le(d, c) == d <= c * c

\* ------------------------------------------------------- constraint checking
plaza == [x |-> PLAZA_X, y |-> PLAZA_Y, w |-> PLAZA_SIZE, h |-> PLAZA_SIZE]

\* Mutant: <= for <, so that a pair exactly MIN_BUILDING_DISTANCE apart fails.
check_partial_constraints_le(bs) ==
    /\ \A k \in 1..Len(bs) : ~ rectangles_overlap(bs[k], plaza)
    /\ \A i \in 1..Len(bs) : \A j \in (i + 1)..Len(bs) :
          ~ dist_le(rectangle_distance(bs[i], bs[j]), MIN_BUILDING_DISTANCE)

check_partial_constraints(bs) ==
    /\ \A k \in 1..Len(bs) : ~ rectangles_overlap(bs[k], plaza)
    /\ \A i \in 1..Len(bs) : \A j \in (i + 1)..Len(bs) :
          ~ dist_lt(rectangle_distance(bs[i], bs[j]), MIN_BUILDING_DISTANCE)

\* ------------------------------------------------------------ generate_layout
uniform(samples, a, b) == {v \in samples : a <= v /\ v <= b}

\* Mutant: the sampling interval forgets the building's own size.
random_building_no_size(b_type) ==
    LET size == IF b_type = "A" THEN TOWER_A_SIZE ELSE TOWER_B_SIZE
        w == size[1]
        h == size[2]
    IN  {[type |-> b_type, w |-> w, h |-> h, x |-> x, y |-> y] :
            x \in uniform(SamplesX, BOUNDARY_BUFFER, SITE_WIDTH - BOUNDARY_BUFFER),
            y \in uniform(SamplesY, BOUNDARY_BUFFER, SITE_HEIGHT - BOUNDARY_BUFFER)}

random_building(b_type) ==
    LET size == IF b_type = "A" THEN TOWER_A_SIZE ELSE TOWER_B_SIZE
        w == size[1]
        h == size[2]
    IN  {[type |-> b_type, w |-> w, h |-> h, x |-> x, y |-> y] :
            x \in uniform(SamplesX, BOUNDARY_BUFFER, SITE_WIDTH - w - BOUNDARY_BUFFER),
            y \in uniform(SamplesY, BOUNDARY_BUFFER, SITE_HEIGHT - h - BOUNDARY_BUFFER)}

\* ['A'] * num_a + ['B'] * num_b
work_list(na, nb) == [i \in 1..na |-> "A"] \o [i \in 1..nb |-> "B"]

\* Mutant: one list shared by every call (a module-level or default-argument
\* list) instead of a fresh one.
new_list_shared(h) == 1

\* A fresh list object: the smallest reference not in use.
new_list(h) == CHOOSE r \in 1..(Cardinality(DOMAIN h) + 1) : r \notin DOMAIN h

\* The heap with every list dropped that nothing refers to any more.
collect_garbage(h, live) == [r \in (DOMAIN h) \cap live |-> h[r]]

refs_of(ls) == {ls[i][2] : i \in 1..Len(ls)}

\* Mutant: the neighbour may be any building, the type-A building itself
\* included.
relational_any_building(bs) ==
    \A i \in 1..Len(bs) :
        bs[i].type = "A" =>
            \E j \in 1..Len(bs) :
                dist_le(rectangle_distance(bs[i], bs[j]), NEIGHBOR_DISTANCE)

\* Mutant: all() for any(), which is true when there is no type-B building.
relational_all(bs) ==
    \A i \in 1..Len(bs) :
        bs[i].type = "A" =>
            \A j \in 1..Len(bs) :
                bs[j].type = "B" =>
                    dist_le(rectangle_distance(bs[i], bs[j]), NEIGHBOR_DISTANCE)

relational_ok(bs) ==
    \A i \in 1..Len(bs) :
        bs[i].type = "A" =>
            \E j \in 1..Len(bs) :
                /\ bs[j].type = "B"
                /\ dist_le(rectangle_distance(bs[i], bs[j]), NEIGHBOR_DISTANCE)

\* -------------------------------------------------------------- compute_score
RECURSIVE sum_seq(_)
sum_seq(s) == IF s = <<>> THEN 0 ELSE Head(s) + sum_seq(Tail(s))

\* Mutant: min(..., default=0), which never raises.
py_min_default(S) ==
    [raised |-> FALSE,
     value  |-> IF S = {} THEN 0 ELSE CHOOSE m \in S : \A e \in S : m <= e]

\* min() and max() of Python: ValueError on an empty argument.
py_min(S) ==
    [raised |-> S = {},
     value  |-> IF S = {} THEN 0 ELSE CHOOSE m \in S : \A e \in S : m <= e]

py_max(S) ==
    [raised |-> S = {},
     value  |-> IF S = {} THEN 0 ELSE CHOOSE m \in S : \A e \in S : m >= e]

RECURSIVE isqrt_search(_, _, _)
isqrt_search(n, lo, hi) ==
    IF lo >= hi THEN lo
    ELSE LET mid == (lo + hi + 1) \div 2
         IN  IF mid * mid <= n THEN isqrt_search(n, mid, hi)
                               ELSE isqrt_search(n, lo, mid - 1)

\* A distance (carried as its square) in units of 1/100, rounded down.
fixed_point(d) == isqrt_search(d * 10000, 0, 46340)

\* The score in units of 1/100; raised: the call ended in ValueError.
compute_score(bs) ==
    LET total_area == sum_seq([i \in 1..Len(bs) |-> bs[i].w * bs[i].h])
        tower_a == SelectSeq(bs, LAMBDA b : b.type = "A")
        tower_b == SelectSeq(bs, LAMBDA b : b.type = "B")
        min_dist(a) ==
            py_min({rectangle_distance(a, tower_b[j]) : j \in 1..Len(tower_b)})
        gain(a) ==
            LET g == NEIGHBOR_DISTANCE * 100 - fixed_point(min_dist(a).value)
            IN  IF g > 0 THEN g ELSE 0
        proximity_score ==
            sum_seq([i \in 1..Len(tower_a) |-> gain(tower_a[i])])
        xs == {bs[i].x : i \in 1..Len(bs)}
        ys == {bs[i].y : i \in 1..Len(bs)}
        spread_penalty ==
            (py_max(xs).value - py_min(xs).value)
                + (py_max(ys).value - py_min(ys).value)
        raised ==
            \/ \E i \in 1..Len(tower_a) : min_dist(tower_a[i]).raised
            \/ py_max(xs).raised \/ py_min(xs).raised
            \/ py_max(ys).raised \/ py_min(ys).raised
    IN  IF raised
        THEN [raised |-> TRUE, value |-> 0]
        ELSE [raised |-> FALSE,
              value  |-> 20 * 100 * Len(bs) + 3 * total_area
                            + 3 * proximity_score - 15 * spread_penalty]

\* ----------------------------------------------------------------- the driver
\* if layout: a list is true when it is not empty; None is false.
truthy(h, ref) == ref # None /\ h[ref] # <<>>

\* list.sort(reverse=True, key=lambda x: x[0]): stable, descending by score.
RECURSIVE insert_desc(_, _)
insert_desc(e, s) ==
    IF s = <<>> THEN <<e>>
    ELSE IF Head(s)[1] <= e[1] THEN <<e>> \o s
    ELSE <<Head(s)>> \o insert_desc(e, Tail(s))

RECURSIVE sort_desc(_)
sort_desc(s) ==
    IF s = <<>> THEN <<>> ELSE insert_desc(Head(s), sort_desc(Tail(s)))

\* ---------------------------------------------------------------------- Init
Init ==
    /\ num_a \in 0..MaxA
    /\ num_b \in 0..MaxB
    /\ max_attempts \in 0..MaxAttempts
    /\ pc = "driver"
    /\ trial = 0
    /\ heap = <<>>
    /\ buildings = None
    /\ idx = 0
    /\ placed = FALSE
    /\ attempt = 0
    /\ layout = None
    /\ layouts = <<>>
    /\ top_layouts = <<>>
    /\ f_pc = "idle"
    /\ f_in = <<>>
    /\ f_out = [fn |-> "none", value |-> FALSE]

\* The driver's for loop takes one more iteration and calls generate_layout,
\* which starts with buildings = [].
Call ==
    /\ pc = "driver"
    /\ trial < NumTrials
    /\ LET ref == new_list(heap)
       IN  /\ buildings' = ref
           /\ heap' = [r \in DOMAIN heap \cup {ref} |->
                          IF r = ref THEN <<>> ELSE heap[r]]
    /\ idx' = 0
    /\ pc' = "for_item"
    /\ UNCHANGED fn_vars
    /\ UNCHANGED <<num_a, num_b, max_attempts, trial, placed, attempt,
                   layout, layouts, top_layouts>>

\* for b_type in ['A'] * num_a + ['B'] * num_b: placed = False
NextItem ==
    /\ pc = "for_item"
    /\ IF idx < Len(work_list(num_a, num_b))
       THEN /\ idx' = idx + 1
            /\ placed' = FALSE
            /\ attempt' = 0
            /\ pc' = "attempts"
       ELSE /\ pc' = "relational"
            /\ UNCHANGED <<idx, placed, attempt>>
    /\ UNCHANGED fn_vars
    /\ UNCHANGED <<num_a, num_b, max_attempts, trial, heap, buildings,
                   layout, layouts, top_layouts>>

\* Mutant: a rejected candidate makes the search drop the rectangle committed
\* last, to sample it again (backtracking).
Attempt_backtrack ==
    /\ pc = "attempts"
    /\ attempt < max_attempts
    /\ \E candidate \in random_building(work_list(num_a, num_b)[idx]) :
          IF check_partial_constraints(Append(heap[buildings], candidate))
          THEN /\ heap' = [heap EXCEPT ![buildings] = Append(@, candidate)]
               /\ placed' = TRUE
               /\ pc' = "after_attempts"
               /\ UNCHANGED attempt
          ELSE /\ attempt' = attempt + 1
               /\ heap' = [heap EXCEPT ![buildings] =
                               SubSeq(@, 1, IF Len(@) > 0 THEN Len(@) - 1 ELSE 0)]
               /\ UNCHANGED <<placed, pc>>
    /\ UNCHANGED fn_vars
    /\ UNCHANGED <<num_a, num_b, max_attempts, trial, buildings, idx,
                   layout, layouts, top_layouts>>

\* One iteration of for _ in range(max_attempts): a candidate is drawn and
\* appended when check_partial_constraints accepts it.
Attempt ==
    /\ pc = "attempts"
    /\ attempt < max_attempts
    /\ \E candidate \in random_building(work_list(num_a, num_b)[idx]) :
          IF check_partial_constraints(Append(heap[buildings], candidate))
          THEN /\ heap' = [heap EXCEPT ![buildings] = Append(@, candidate)]
               /\ placed' = TRUE
               /\ pc' = "after_attempts"
               /\ UNCHANGED attempt
          ELSE /\ attempt' = attempt + 1
               /\ UNCHANGED <<heap, placed, pc>>
    /\ UNCHANGED fn_vars
    /\ UNCHANGED <<num_a, num_b, max_attempts, trial, buildings, idx,
                   layout, layouts, top_layouts>>

\* range(max_attempts) is used up without a break.
Exhausted ==
    /\ pc = "attempts"
    /\ attempt >= max_attempts
    /\ pc' = "after_attempts"
    /\ UNCHANGED fn_vars
    /\ UNCHANGED <<num_a, num_b, max_attempts, trial, heap, buildings, idx,
                   placed, attempt, layout, layouts, top_layouts>>

\* generate_layout returns result to the driver, which binds it to layout;
\* a list nothing refers to any more is freed.
return(result) ==
    /\ layout' = result
    /\ buildings' = None
    /\ heap' = collect_garbage(heap, refs_of(layouts) \cup {result})
    /\ pc' = "returned"

\* Mutant: an item that could not be placed is skipped instead of failing
\* the search.
AfterAttempts_continue ==
    /\ pc = "after_attempts"
    /\ pc' = "for_item"
    /\ UNCHANGED <<heap, buildings, layout>>
    /\ UNCHANGED fn_vars
    /\ UNCHANGED <<num_a, num_b, max_attempts, trial, idx, placed, attempt,
                   layouts, top_layouts>>

\* if not placed: return None
AfterAttempts ==
    /\ pc = "after_attempts"
    /\ IF ~ placed
       THEN return(None)
       ELSE /\ pc' = "for_item"
            /\ UNCHANGED <<heap, buildings, layout>>
    /\ UNCHANGED fn_vars
    /\ UNCHANGED <<num_a, num_b, max_attempts, trial, idx, placed, attempt,
                   layouts, top_layouts>>

\* The final neighbour check, then return buildings.
Relational ==
    /\ pc = "relational"
    /\ IF relational_ok(heap[buildings])
       THEN return(buildings)
       ELSE return(None)
    /\ UNCHANGED fn_vars
    /\ UNCHANGED <<num_a, num_b, max_attempts, trial, idx, placed, attempt,
                   layouts, top_layouts>>

\* if layout: layouts.append((compute_score(layout), layout))
Collect ==
    /\ pc = "returned"
    /\ IF truthy(heap, layout)
       THEN LET score == compute_score(heap[layout])
            IN  IF score.raised
                THEN /\ pc' = "ValueError"
                     /\ UNCHANGED <<layouts, trial>>
                ELSE /\ layouts' = Append(layouts, <<score.value, layout>>)
                     /\ trial' = trial + 1
                     /\ pc' = "driver"
       ELSE /\ trial' = trial + 1
            /\ pc' = "driver"
            /\ UNCHANGED layouts
    /\ UNCHANGED fn_vars
    /\ UNCHANGED <<num_a, num_b, max_attempts, heap, buildings, idx, placed,
                   attempt, layout, top_layouts>>

\* After the loop: layouts.sort(...); top_layouts = layouts[:3]
Select ==
    /\ pc = "driver"
    /\ trial >= NumTrials
    /\ layouts' = sort_desc(layouts)
    /\ top_layouts' = SubSeq(layouts', 1, IF Len(layouts') < 3 THEN Len(layouts') ELSE 3)
    /\ pc' = "done"
    /\ UNCHANGED fn_vars
    /\ UNCHANGED <<num_a, num_b, max_attempts, trial, heap, buildings, idx,
                   placed, attempt, layout>>

Next ==
    \/ Call
    \/ NextItem
    \/ Attempt
    \/ Exhausted
    \/ AfterAttempts
    \/ Relational
    \/ Collect
    \/ Select

Spec == Init /\ [][Next]_vars

\* ------------------------------------------------------- the function harness
\* The pure functions called directly, on arguments drawn from FnRects: one
\* call per behaviour, its result kept in f_out.
FnPositions ==
    { <<10, 10>>, <<20, 15>>, <<40, 10>>, <<40, 30>>, <<54, 10>>, <<55, 10>>,
      <<49, 41>>, <<49, 42>>, <<60, 50>>, <<90, 60>> }

FnRects ==
    { [type |-> t, w |-> (IF t = "A" THEN TOWER_A_SIZE ELSE TOWER_B_SIZE)[1],
       h |-> (IF t = "A" THEN TOWER_A_SIZE ELSE TOWER_B_SIZE)[2],
       x |-> p[1], y |-> p[2]] : t \in {"A", "B"}, p \in FnPositions }

InitFn ==
    /\ num_a = 0
    /\ num_b = 0
    /\ max_attempts = 0
    /\ pc = "driver"
    /\ trial = 0
    /\ heap = <<>>
    /\ buildings = None
    /\ idx = 0
    /\ placed = FALSE
    /\ attempt = 0
    /\ layout = None
    /\ layouts = <<>>
    /\ top_layouts = <<>>
    /\ f_pc = "ready"
    /\ f_in \in UNION {[1..n -> FnRects] : n \in 0..MaxLen}
    /\ f_out = [fn |-> "none", value |-> FALSE]

returns(fn, value) ==
    /\ f_out' = [fn |-> fn, value |-> value]
    /\ f_pc' = "done"
    /\ UNCHANGED f_in
    /\ UNCHANGED prog_vars

CallOverlap ==
    /\ f_pc = "ready"
    /\ Len(f_in) = 2
    /\ returns("rectangles_overlap", rectangles_overlap(f_in[1], f_in[2]))

CallDistance ==
    /\ f_pc = "ready"
    /\ Len(f_in) = 2
    /\ returns("rectangle_distance", rectangle_distance(f_in[1], f_in[2]))

CallCheck ==
    /\ f_pc = "ready"
    /\ returns("check_partial_constraints", check_partial_constraints(f_in))

CallScore ==
    /\ f_pc = "ready"
    /\ returns("compute_score", compute_score(f_in))

NextFn ==
    \/ CallOverlap
    \/ CallDistance
    \/ CallCheck
    \/ CallScore

SpecFn == InitFn /\ [][NextFn]_vars

\* ======================================================== properties checked
\* Helpers of the properties: the geometry stated on intervals and points,
\* independently of the operators that model the code.
axis_gap(lo1, hi1, lo2, hi2) ==
    LET lo == IF lo1 >= lo2 THEN lo1 ELSE lo2
        hi == IF hi1 <= hi2 THEN hi1 ELSE hi2
    IN  IF lo > hi THEN lo - hi ELSE 0

\* The square of the edge-to-edge separation of two rectangles.
separation_sq(r, s) ==
    LET gx == axis_gap(r.x, r.x + r.w, s.x, s.x + s.w)
        gy == axis_gap(r.y, r.y + r.h, s.y, s.y + s.h)
    IN  gx * gx + gy * gy

in_plaza(r) ==
    /\ r.x < PLAZA_X + PLAZA_SIZE /\ PLAZA_X < r.x + r.w
    /\ r.y < PLAZA_Y + PLAZA_SIZE /\ PLAZA_Y < r.y + r.h

\* Some point lies strictly inside both rectangles (half-unit grid).
interiors_intersect(r, s) ==
    /\ \E px \in 0..(2 * SITE_WIDTH) :
          /\ 2 * r.x < px /\ px < 2 * (r.x + r.w)
          /\ 2 * s.x < px /\ px < 2 * (s.x + s.w)
    /\ \E py \in 0..(2 * SITE_HEIGHT) :
          /\ 2 * r.y < py /\ py < 2 * (r.y + r.h)
          /\ 2 * s.y < py /\ py < 2 * (s.y + s.h)

\* Some point lies in both closed rectangles: they overlap or share boundary.
closed_intersect(r, s) ==
    /\ \E px \in 0..SITE_WIDTH :
          /\ r.x <= px /\ px <= r.x + r.w
          /\ s.x <= px /\ px <= s.x + s.w
    /\ \E py \in 0..SITE_HEIGHT :
          /\ r.y <= py /\ py <= r.y + r.h
          /\ s.y <= py /\ py <= s.y + s.h

count_type(bs, t) == Cardinality({i \in 1..Len(bs) : bs[i].type = t})

\* A list of exactly num_a type-A rectangles (30x20) followed by num_b
\* type-B rectangles (20x20).
complete_layout(bs) ==
    /\ Len(bs) = num_a + num_b
    /\ \A i \in 1..Len(bs) :
          IF i <= num_a
          THEN bs[i].type = "A" /\ bs[i].w = 30 /\ bs[i].h = 20
          ELSE bs[i].type = "B" /\ bs[i].w = 20 /\ bs[i].h = 20

\* C1: a layout returned by generate_layout (a result that is not None) has
\* no rectangle overlapping the plaza, every unordered pair of its rectangles
\* at distance >= MIN_BUILDING_DISTANCE, and for every type-A rectangle a
\* type-B rectangle at distance <= NEIGHBOR_DISTANCE.
C1_ReturnedLayoutValid ==
    (pc = "returned" /\ layout # None) =>
        LET bs == heap[layout]
        IN  /\ check_partial_constraints(bs)
            /\ \A i \in 1..Len(bs) : ~ in_plaza(bs[i])
            /\ \A i, j \in 1..Len(bs) :
                  i # j => separation_sq(bs[i], bs[j])
                              >= MIN_BUILDING_DISTANCE * MIN_BUILDING_DISTANCE
            /\ \A i \in 1..Len(bs) :
                  bs[i].type = "A" =>
                      \E j \in 1..Len(bs) :
                          /\ bs[j].type = "B"
                          /\ separation_sq(bs[i], bs[j])
                                <= NEIGHBOR_DISTANCE * NEIGHBOR_DISTANCE

\* A layout of two type-A and one type-B rectangles has been returned.
C1_Witness ==
    /\ pc = "returned" /\ layout # None
    /\ count_type(heap[layout], "A") = 2
    /\ count_type(heap[layout], "B") = 1

\* C2: every rectangle of a returned layout lies inside the site shrunk by
\* BOUNDARY_BUFFER on every side.
C2_ReturnedLayoutInsideBuffer ==
    (pc = "returned" /\ layout # None) =>
        \A i \in 1..Len(heap[layout]) :
            LET b == heap[layout][i]
            IN  /\ BOUNDARY_BUFFER <= b.x
                /\ b.x + b.w <= SITE_WIDTH - BOUNDARY_BUFFER
                /\ BOUNDARY_BUFFER <= b.y
                /\ b.y + b.h <= SITE_HEIGHT - BOUNDARY_BUFFER

\* A returned layout holds both kinds, one type-A rectangle drawn at the
\* upper end of its interval and one rectangle at the lower end.
C2_Witness ==
    /\ pc = "returned" /\ layout # None
    /\ \E i, j \in 1..Len(heap[layout]) :
          /\ heap[layout][i].type = "A"
          /\ heap[layout][i].x + heap[layout][i].w = SITE_WIDTH - BOUNDARY_BUFFER
          /\ heap[layout][j].type = "B"
          /\ heap[layout][j].y = BOUNDARY_BUFFER

\* C3: the result of generate_layout is None or a list of exactly
\* num_a + num_b rectangles, the num_a of type A first; the driver collects
\* only such completed, non-empty lists, never None and never the list a
\* running search is still building, and scoring them never fails.
C3_NoPartialLayout ==
    /\ pc = "returned" => (layout = None \/ complete_layout(heap[layout]))
    /\ \A i \in 1..Len(layouts) :
          /\ layouts[i][2] # None
          /\ layouts[i][2] \in DOMAIN heap
          /\ layouts[i][2] # buildings
          /\ heap[layouts[i][2]] # <<>>
          /\ complete_layout(heap[layouts[i][2]])
    /\ pc # "ValueError"

\* One layout is collected, and the next search has returned a layout of two
\* type-A rectangles and one type-B rectangle.
C3_Witness ==
    /\ Len(layouts) = 1
    /\ pc = "returned" /\ layout # None
    /\ num_a = 2 /\ num_b = 1
    /\ Len(heap[layout]) = 3

\* C4: with num_a = 1 and num_b = 0, generate_layout returns None.
C4_NoSecondaryFails ==
    (num_a = 1 /\ num_b = 0 /\ pc = "returned") => layout = None

\* With num_a = 1 and num_b = 0 the type-A item was placed and the search
\* has returned (the final check failed it).
C4_Witness ==
    /\ num_a = 1 /\ num_b = 0 /\ max_attempts >= 1
    /\ pc = "returned" /\ placed /\ idx = 1

\* C5: when max_attempts candidates of one item were all rejected the search
\* returns None with no further candidate drawn, and while a search runs its
\* list changes only by the append of a candidate that
\* check_partial_constraints accepted.
C5_Step ==
    /\ (pc = "attempts" /\ attempt >= max_attempts) =>
          (pc' = "after_attempts" /\ ~ placed' /\ UNCHANGED <<heap, idx>>)
    /\ (pc = "after_attempts" /\ ~ placed) =>
          (pc' = "returned" /\ layout' = None)
    /\ (buildings # None /\ buildings' # buildings) => pc' = "returned"
    /\ (buildings # None /\ buildings' = buildings) =>
          LET old == heap[buildings]
              new == heap'[buildings]
          IN  \/ new = old
              \/ /\ Len(new) = Len(old) + 1
                 /\ SubSeq(new, 1, Len(old)) = old
                 /\ check_partial_constraints(new)
                 /\ pc = "attempts"

\* C5: every step of the program is a step without backtracking, as stated
\* in C5_Step.
C5_NoBacktracking == [][C5_Step]_vars

\* A search has failed on its second or a later item, after max_attempts >= 2
\* rejected candidates, with items of the work list left untried.
C5_Witness ==
    /\ pc = "returned" /\ layout = None /\ ~ placed
    /\ max_attempts >= 2 /\ attempt = max_attempts
    /\ idx >= 2 /\ idx < num_a + num_b

\* C6: check_partial_constraints is False exactly when some rectangle
\* overlaps the plaza or some unordered pair is closer than
\* MIN_BUILDING_DISTANCE; a pair exactly MIN_BUILDING_DISTANCE apart passes.
C6_CheckExact ==
    f_out.fn = "check_partial_constraints" =>
        LET min_sq == MIN_BUILDING_DISTANCE * MIN_BUILDING_DISTANCE
            fails ==
                \/ \E k \in 1..Len(f_in) : in_plaza(f_in[k])
                \/ \E i, j \in 1..Len(f_in) :
                      i # j /\ separation_sq(f_in[i], f_in[j]) < min_sq
        IN  /\ f_out.value = ~ fails
            /\ (/\ Len(f_in) = 2
                /\ ~ in_plaza(f_in[1]) /\ ~ in_plaza(f_in[2])
                /\ separation_sq(f_in[1], f_in[2]) = min_sq) => f_out.value
            /\ (/\ Len(f_in) = 2
                /\ separation_sq(f_in[1], f_in[2]) < min_sq) => ~ f_out.value

\* Two rectangles exactly MIN_BUILDING_DISTANCE apart, diagonally (gaps 9 and
\* 12), were accepted.
C6_Witness ==
    /\ f_out.fn = "check_partial_constraints"
    /\ Len(f_in) = 2
    /\ f_out.value
    /\ axis_gap(f_in[1].x, f_in[1].x + f_in[1].w,
                f_in[2].x, f_in[2].x + f_in[2].w) = 9
    /\ axis_gap(f_in[1].y, f_in[1].y + f_in[1].h,
                f_in[2].y, f_in[2].y + f_in[2].h) = 12

\* C7: rectangle_distance is symmetric and >= 0, and is 0 when the
\* rectangles overlap or share boundary.
C7_DistanceSymmetric ==
    f_out.fn = "rectangle_distance" =>
        /\ f_out.value = rectangle_distance(f_in[2], f_in[1])
        /\ f_out.value >= 0
        /\ (rectangles_overlap(f_in[1], f_in[2]) \/ closed_intersect(f_in[1], f_in[2]))
              => f_out.value = 0
        /\ f_out.value = separation_sq(f_in[1], f_in[2])

\* The distance of two rectangles that touch without overlapping was taken.
C7_Witness ==
    /\ f_out.fn = "rectangle_distance"
    /\ closed_intersect(f_in[1], f_in[2])
    /\ ~ rectangles_overlap(f_in[1], f_in[2])
    /\ f_out.value = 0

\* C8: rectangles_overlap is symmetric, and true exactly when the interiors
\* of the two rectangles intersect (touching is not overlapping).
C8_OverlapStrictSymmetric ==
    f_out.fn = "rectangles_overlap" =>
        /\ f_out.value = rectangles_overlap(f_in[2], f_in[1])
        /\ f_out.value = interiors_intersect(f_in[1], f_in[2])

\* Two rectangles that share an edge, or only a corner, were found not to
\* overlap.
C8_Witness ==
    /\ f_out.fn = "rectangles_overlap"
    /\ ~ f_out.value
    /\ f_in[1].x + f_in[1].w = f_in[2].x
    /\ f_in[1].y + f_in[1].h = f_in[2].y

\* C9 as stated: compute_score ends in an error exactly when the layout has
\* no type-B or no type-A rectangle.
C9_Original ==
    f_out.fn = "compute_score" =>
        (f_out.value.raised <=>
            (count_type(f_in, "B") = 0 \/ count_type(f_in, "A") = 0))

\* C9 amended: compute_score ends in an error exactly when the layout has no
\* type-B rectangle; with type-B rectangles only it returns a score.
C9_ErrorIffNoSecondary ==
    f_out.fn = "compute_score" =>
        (f_out.value.raised <=> count_type(f_in, "B") = 0)

\* A layout of type-B rectangles only was scored.
C9_Witness ==
    /\ f_out.fn = "compute_score"
    /\ count_type(f_in, "A") = 0 /\ count_type(f_in, "B") >= 2
    /\ ~ f_out.value.raised

\* C10: a call of generate_layout starts on a fresh, empty list, and no step
\* of a later call (or of compute_score, or of the driver) changes the
\* contents of a layout the driver has collected.
C10_Step ==
    /\ \A i \in 1..Len(layouts) :
          /\ layouts[i][2] \in DOMAIN heap'
          /\ heap'[layouts[i][2]] = heap[layouts[i][2]]
    /\ (pc = "driver" /\ pc' = "for_item") =>
          /\ buildings' \notin DOMAIN heap
          /\ heap'[buildings'] = <<>>
          /\ idx' = 0

\* C10: every step of the program leaves the collected layouts as they
\* are and starts a call on a fresh list, as stated in C10_Step.
C10_CallsShareNoState == [][C10_Step]_vars

\* While one layout is collected, a later call has committed a rectangle to
\* its own list.
C10_Witness ==
    /\ Len(layouts) >= 1
    /\ pc = "after_attempts" /\ placed
    /\ buildings # None /\ heap[buildings] # <<>>

====
